---------------------------- MODULE Spec2Model ----------------------------
(***************************************************************************)
(* A model of the port mailbox of lv2-ui (src/lib.rs): the control port    *)
(* (UIControlPort), the atom port (UIAtomPort) with its two                *)
(* SelfAllocatingSpace buffers, the event dispatch UIPortsTrait::port_event *)
(* and the write-back through PluginPortWriteHandle::write_port.           *)
(*                                                                         *)
(* Spec takes every call as one step.  SpecOutbound follows the outbound   *)
(* space alone through init and allocate up to MaxSpace bytes, and         *)
(* SpecInterleaved takes put_buffer statement by statement with the UI's   *)
(* read between any two statements.                                        *)
(*                                                                         *)
(* An f32 is modelled by its bit pattern (a natural number below 2^32), a  *)
(* host buffer by a pointer that is null or addresses a readable region of *)
(* bytes.  A sequence of bytes is 1-indexed, as TLA+ sequences are.        *)
(***************************************************************************)
EXTENDS Integers, Sequences, FiniteSets, TLC

(* ------------------------------ bounds -------------------------------- *)

\* the host's regions are Region(seed, n), seed in 1..MaxSeed, n up to MaxLen
MaxSeed == 2
MaxLen == 5
\* an outbound message is staged up to MaxOut bytes
MaxOut == 2
\* in SpecOutbound the outbound space grows up to MaxSpace bytes, by allocations
\* of up to MaxChunk bytes
MaxSpace == 17
MaxChunk == 3

(* ------------------------- values and memory -------------------------- *)

\* Option<T>
None == [some |-> FALSE]
Some(x) == [some |-> TRUE, val |-> x]

\* std::mem::size_of::<f32>()
F32Size == 4

\* the f32 stored at a 4 byte region (native byte order, little endian)
F32FromBytes(b) == b[1] + 256 * b[2] + 65536 * b[3] + 16777216 * b[4]

\* the 4 bytes found at the address of an f32
F32ToBytes(v) ==
    << v % 256, (v \div 256) % 256, (v \div 65536) % 256, (v \div 16777216) % 256 >>

\* a readable region of n bytes as a host supplies it
Region(seed, n) == [k \in 1..n |-> (16 * seed + k) % 256]

\* the lengths of the host's regions: empty, shorter than an f32, an f32, longer
Lengths == {0, 1, F32Size, MaxLen}

Regions == { Region(seed, n) : seed \in 1..MaxSeed, n \in Lengths }

\* the n bytes the UI serializes at offset start of an outbound message
OutBytes(start, n) == [k \in 1..n |-> (16 * (MaxSeed + 1) + start + k) % 256]

\* the `buffer: *const c_void` argument: null, or the address of a region
NullPtr == [null |-> TRUE]
PtrTo(mem) == [null |-> FALSE, mem |-> mem]

\* the numbers of readable bytes behind a pointer
Readable(buffer) == IF buffer.null THEN 0 ELSE Len(buffer.mem)

\* the f32 values a host sends
HostValues == { F32FromBytes(Region(seed, F32Size)) : seed \in 1..MaxSeed }

\* the f32 values an out-of-bounds read may yield
F32Values == {0} \cup HostValues

\* the f32 values the UI sets
UIValues == {0, F32FromBytes(OutBytes(0, F32Size))}

\* the type tags (formats) a host sends: 0 for a float, else a URID
Formats == {0, 7, 8}

(* ---------------------------- UIControlPort --------------------------- *)

UIControlPort_new(index) ==
    [kind |-> "control", index |-> index, value |-> 0, changed |-> FALSE]

\* a set_value that forgets to mark the change
set_value_unmarked(port, v) == [port EXCEPT !.value = v]

set_value(port, v) == [port EXCEPT !.value = v, !.changed = TRUE]

\* a changed_value that forgets to reset the flag
changed_value_keeps_flag(port) ==
    IF port.changed
    THEN [port |-> port, ret |-> Some(port.value)]
    ELSE [port |-> port, ret |-> None]

changed_value(port) ==
    IF port.changed
    THEN [port |-> [port EXCEPT !.changed = FALSE], ret |-> Some(port.value)]
    ELSE [port |-> port, ret |-> None]

(* ------------------------- SelfAllocatingSpace ------------------------ *)

SelfAllocatingSpace_new == [data |-> << >>, already_read |-> FALSE]

\* a put_buffer that overwrites in place and never shortens the vector
put_buffer_keeps_tail(space, buffer, size) ==
    [data |-> SubSeq(buffer.mem, 1, size) \o SubSeq(space.data, size + 1, Len(space.data)),
     already_read |-> FALSE]

\* set_len(0); reserve(size); copy size bytes from the buffer; set_len(size)
put_buffer(space, buffer, size) ==
    [data |-> SubSeq(buffer.mem, 1, size), already_read |-> FALSE]

\* a take that does not look at the length
take_ignores_length(space) ==
    IF space.already_read
    THEN [space |-> space, ret |-> None]
    ELSE [space |-> [space EXCEPT !.already_read = TRUE], ret |-> Some(space.data)]

\* a take that forgets to mark the message as read
take_unmarked(space) ==
    IF Len(space.data) = 0 \/ space.already_read
    THEN [space |-> space, ret |-> None]
    ELSE [space |-> space, ret |-> Some(space.data)]

take(space) ==
    IF Len(space.data) = 0 \/ space.already_read
    THEN [space |-> space, ret |-> None]
    ELSE [space |-> [space EXCEPT !.already_read = TRUE], ret |-> Some(space.data)]

Zeros(n) == [k \in 1..n |-> 0]

\* an allocate that never pads
allocate_unpadded(space, size, apply_padding) ==
    [space |-> [space EXCEPT !.data = space.data \o Zeros(size)],
     start |-> Len(space.data),
     len   |-> size]

\* the result is the space and the place of the returned slice in it
allocate(space, size, apply_padding) ==
    LET padding == IF apply_padding THEN (8 - (Len(space.data) % 8)) % 8 ELSE 0
        start_point == Len(space.data) + padding
    IN  [space |-> [space EXCEPT !.data = space.data \o Zeros(padding) \o Zeros(size)],
         start |-> start_point,
         len   |-> size]

\* the caller's write through the slice that allocate returned
FillSlice(space, start, bytes) ==
    [space EXCEPT !.data =
        [k \in 1..Len(space.data) |->
            IF k > start /\ k <= start + Len(bytes) THEN bytes[k - start] ELSE space.data[k]]]

(* ------------------------------ UIAtomPort ---------------------------- *)

UIAtomPort_new(urid, index) ==
    [kind |-> "atom", index |-> index, urid |-> urid,
     space_to_plugin |-> SelfAllocatingSpace_new,
     space_to_ui |-> SelfAllocatingSpace_new]

\* a put_buffer that writes the outbound space
UIAtomPort_put_buffer_outbound(port, buffer, size) ==
    [port EXCEPT !.space_to_plugin = put_buffer(port.space_to_plugin, buffer, size)]

UIAtomPort_put_buffer(port, buffer, size) ==
    [port EXCEPT !.space_to_ui = put_buffer(port.space_to_ui, buffer, size)]

\* a comparison that accepts every URID
urid_matches_any(port, urid) == TRUE

\* `port.urid.get() == urid`
urid_matches(port, urid) == port.urid = urid

\* read: take() of the inbound space; the atom decoder that follows is lv2_atom's
UIAtomPort_read(port) ==
    LET t == take(port.space_to_ui)
    IN  [port |-> [port EXCEPT !.space_to_ui = t.space], ret |-> t.ret]

\* an init that keeps the outbound space it finds
UIAtomPort_init_keeps(port) == port

\* init: a new outbound space; the write handle it returns borrows the port while
\* the atom writer appends through it
UIAtomPort_init(port) == [port EXCEPT !.space_to_plugin = SelfAllocatingSpace_new]

(* -------------------------------- UIPort ------------------------------ *)

UIPort_index(port) == port.index

UIPort_protocol(port) == IF port.kind = "control" THEN 0 ELSE port.urid

UIPort_size(port) == IF port.kind = "control" THEN F32Size ELSE Len(port.space_to_plugin.data)

\* the bytes at the pointer data() returns
UIPort_data(port) ==
    IF port.kind = "control" THEN F32ToBytes(port.value) ELSE port.space_to_plugin.data

(* --------------------------- the port collection ---------------------- *)

\* the collection the UI is built with: a control port and an atom port
Directory == (0 :> UIControlPort_new(0)) @@ (1 :> UIAtomPort_new(7, 1))

\* the indices a host may address: those of the ports, and one past them
PortIndex == 0..Cardinality(DOMAIN Directory)

map_control_port(ps, port_index) ==
    IF port_index \in DOMAIN ps /\ ps[port_index].kind = "control"
    THEN Some(port_index) ELSE None

map_atom_port(ps, port_index) ==
    IF port_index \in DOMAIN ps /\ ps[port_index].kind = "atom"
    THEN Some(port_index) ELSE None

ControlPorts(ps) == { i \in DOMAIN ps : ps[i].kind = "control" }
AtomPorts(ps) == { i \in DOMAIN ps : ps[i].kind = "atom" }

(* ------------------------------- state -------------------------------- *)

VARIABLES
    ports,      \* the UI's port collection: index -> port
    fault,      \* the process was ended by a memory fault
    call,       \* the most recent call: << name >>, << name, port index >> or
                \* << "port_event", port index, format >>
    ret,        \* what that call returned (None for a call that returns nothing)
    stderr,     \* what that call printed: << >> or << message, port index >>
    emitted,    \* the write_function calls that call made, in order
    updates,    \* the update() calls that call made
    handles,    \* the atom ports whose write handle (from init) is still borrowed
    sets,       \* history: per port the last value set and the changed_value calls since
    unsent,     \* history: per port, the value was set since its last write-back emission
    inbox,      \* history: per port the last message put and the take calls since
    put,        \* the put_buffer call in progress, when its steps are taken one by one:
                \* its port, its arguments, the step it takes next, the bytes it copied
    delivered,  \* history (SpecInterleaved): the take calls that returned the message
                \* the space holds since the last set_len(size)
    staged      \* history (SpecOutbound): the bytes allocated since the last init, and
                \* the length of the message that init discarded

vars == << ports, fault, call, ret, stderr, emitted, updates, handles, sets, unsent, inbox,
           put, delivered, staged >>

\* sets, unsent and inbox record which calls were made; no action reads them
hist == << sets, unsent, inbox >>

\* what only the specifications of the single steps and of the outbound space change
aux == << put, delivered, staged >>

\* saturating count of calls
Bump(n) == IF n < 2 THEN n + 1 ELSE 2

NoteSet(h, i, v) == [h EXCEPT ![i] = Some([v |-> v, polls |-> 0])]

NotePoll(h, i) ==
    [h EXCEPT ![i] = IF @.some THEN Some([@.val EXCEPT !.polls = Bump(@)]) ELSE @]

\* what an unread, non-empty message is to the message that replaces it
Replaced(space, msg) ==
    IF Len(space.data) = 0 \/ space.already_read THEN "none"
    ELSE IF Len(space.data) > Len(msg) THEN "longer"
    ELSE "other"

NotePut(h, i, space, msg) ==
    [h EXCEPT ![i] = Some([msg |-> msg, takes |-> 0, replaced |-> Replaced(space, msg)])]

NoteTake(h, i) ==
    [h EXCEPT ![i] = IF @.some THEN Some([@.val EXCEPT !.takes = Bump(@)]) ELSE @]

Init ==
    /\ ports = Directory
    /\ fault = FALSE
    /\ call = << "instantiate" >>
    /\ ret = None
    /\ stderr = << >>
    /\ emitted = << >>
    /\ updates = 0
    /\ handles = {}
    /\ sets = [i \in PortIndex |-> None]
    /\ unsent = [i \in PortIndex |-> FALSE]
    /\ inbox = [i \in PortIndex |-> None]
    /\ put = None
    /\ delivered = [i \in PortIndex |-> 0]
    /\ staged = [i \in PortIndex |-> [appended |-> << >>, dropped |-> 0]]

(* ----------------------- UIPortsTrait::port_event --------------------- *)

\* `*(buffer as *const f32)`: defined when 4 bytes are readable at the address;
\* otherwise the read is out of bounds (or of null) and either faults or yields
\* whatever the memory holds
ReadF32(buffer) ==
    IF Readable(buffer) >= F32Size
    THEN { [fault |-> FALSE, value |-> F32FromBytes(buffer.mem)] }
    ELSE { [fault |-> TRUE, value |-> 0] }
         \cup { [fault |-> FALSE, value |-> v] : v \in F32Values }

\* a NonNull that takes the null pointer for the address of a zeroed region
NonNull_of_zero_page(buffer) ==
    Some(IF buffer.null THEN PtrTo([k \in 1..MaxLen |-> 0]) ELSE buffer)

\* ptr::NonNull::new(buffer)
NonNull(buffer) == IF buffer.null THEN None ELSE Some(buffer)

port_event(port_index, buffer_size, format, buffer) ==
    /\ call' = << "port_event", port_index, format >>
    /\ ret' = None
    /\ emitted' = << >>
    /\ handles' = {}
    /\ IF format = 0
       THEN \E rd \in ReadF32(buffer) :
              IF rd.fault
              THEN /\ fault' = TRUE
                   /\ stderr' = << >>
                   /\ UNCHANGED << ports, hist >>
              ELSE /\ fault' = FALSE
                   /\ UNCHANGED inbox
                   /\ IF map_control_port(ports, port_index).some
                      THEN /\ ports' = [ports EXCEPT ![port_index] = set_value(@, rd.value)]
                           /\ sets' = NoteSet(sets, port_index, rd.value)
                           /\ unsent' = [unsent EXCEPT ![port_index] = TRUE]
                           /\ stderr' = << >>
                      ELSE /\ stderr' = << "unknown control port", port_index >>
                           /\ UNCHANGED << ports, sets, unsent >>
       ELSE /\ fault' = FALSE
            /\ UNCHANGED << sets, unsent >>
            /\ IF map_atom_port(ports, port_index).some
               THEN IF urid_matches(ports[port_index], format)
                    THEN /\ stderr' = << >>
                         /\ LET pointer == NonNull(buffer)
                            IN  IF pointer.some
                                THEN /\ ports' = [ports EXCEPT ![port_index] =
                                           UIAtomPort_put_buffer(@, pointer.val, buffer_size)]
                                     /\ inbox' = NotePut(inbox, port_index,
                                                         ports[port_index].space_to_ui,
                                                         SubSeq(pointer.val.mem, 1, buffer_size))
                                ELSE UNCHANGED << ports, inbox >>
                    ELSE /\ stderr' = << "urids don't match", port_index >>
                         /\ UNCHANGED << ports, inbox >>
               ELSE /\ stderr' = << "unknown atom port", port_index >>
                    /\ UNCHANGED << ports, inbox >>

\* the host's events: a region is passed with its length, a null pointer with any
HostEvents ==
    { [size |-> Len(mem), buffer |-> PtrTo(mem)] : mem \in Regions }
    \cup { [size |-> n, buffer |-> NullPtr] : n \in {0, F32Size} }

\* PluginUI::port_event: the event goes to the ports, then update() is called
PluginUI_port_event(port_index, buffer_size, format, buffer) ==
    /\ port_event(port_index, buffer_size, format, buffer)
    /\ updates' = IF fault' THEN 0 ELSE 1

HostPortEvent ==
    /\ ~fault
    /\ \E port_index \in PortIndex, format \in Formats, ev \in HostEvents :
           PluginUI_port_event(port_index, ev.size, format, ev.buffer)
    /\ UNCHANGED aux

(* ----------------------------- the UI's calls ------------------------- *)

UISetValue(i, v) ==
    /\ ~fault
    /\ updates' = 0
    /\ i \in ControlPorts(ports)
    /\ ports' = [ports EXCEPT ![i] = set_value(@, v)]
    /\ call' = << "set_value", i >>
    /\ ret' = None
    /\ sets' = NoteSet(sets, i, v)
    /\ unsent' = [unsent EXCEPT ![i] = TRUE]
    /\ stderr' = << >> /\ emitted' = << >>
    /\ UNCHANGED << fault, handles, inbox >>

UIChangedValue(i) ==
    /\ ~fault
    /\ updates' = 0
    /\ i \in ControlPorts(ports)
    /\ LET r == changed_value(ports[i])
       IN  /\ ports' = [ports EXCEPT ![i] = r.port]
           /\ ret' = r.ret
    /\ call' = << "changed_value", i >>
    /\ sets' = NotePoll(sets, i)
    /\ stderr' = << >> /\ emitted' = << >>
    /\ UNCHANGED << fault, handles, unsent, inbox >>

UIRead(i) ==
    /\ ~fault
    /\ updates' = 0
    /\ i \in AtomPorts(ports)
    /\ LET r == UIAtomPort_read(ports[i])
       IN  /\ ports' = [ports EXCEPT ![i] = r.port]
           /\ ret' = r.ret
    /\ call' = << "read", i >>
    /\ inbox' = NoteTake(inbox, i)
    /\ handles' = handles \ {i}
    /\ stderr' = << >> /\ emitted' = << >>
    /\ UNCHANGED << fault, sets, unsent >>

UIInit(i) ==
    /\ ~fault
    /\ updates' = 0
    /\ i \in AtomPorts(ports)
    /\ ports' = [ports EXCEPT ![i] = UIAtomPort_init(@)]
    /\ call' = << "init", i >>
    /\ ret' = None
    /\ handles' = handles \cup {i}
    /\ stderr' = << >> /\ emitted' = << >>
    /\ UNCHANGED << fault, hist >>

\* MutSpace::write_raw through the write handle: allocate, then copy into the
\* slice; the space grows up to cap bytes
UIAllocate(i, n, apply_padding, cap) ==
    /\ ~fault
    /\ updates' = 0
    /\ i \in AtomPorts(ports)
    /\ i \in handles
    /\ LET a == allocate(ports[i].space_to_plugin, n, apply_padding)
       IN  /\ Len(a.space.data) <= cap
           /\ ports' = [ports EXCEPT ![i].space_to_plugin =
                            FillSlice(a.space, a.start, OutBytes(a.start, a.len))]
           /\ ret' = Some([start |-> a.start, len |-> a.len])
    /\ call' = << "allocate", i >>
    /\ stderr' = << >> /\ emitted' = << >>
    /\ UNCHANGED << fault, handles, hist >>

UIAppend(i, n, apply_padding) == UIAllocate(i, n, apply_padding, MaxOut)

(* ------------------------------ write-back ---------------------------- *)

\* the host gave a write function (LV2UI_Write_Function is not null)
write_function == TRUE

\* a write_port that passes size and index in each other's place
write_port_swapped(port) ==
    IF write_function
    THEN << [index |-> UIPort_size(port), size |-> UIPort_index(port),
             protocol |-> UIPort_protocol(port), data |-> UIPort_data(port)] >>
    ELSE << >>

\* the write_function calls of one write_port call
write_port(port) ==
    IF write_function
    THEN << [index |-> UIPort_index(port), size |-> UIPort_size(port),
             protocol |-> UIPort_protocol(port), data |-> UIPort_data(port)] >>
    ELSE << >>

UIWritePort(i) ==
    /\ ~fault
    /\ updates' = 0
    /\ i \in DOMAIN ports
    /\ emitted' = write_port(ports[i])
    /\ call' = << "write_port", i >>
    /\ ret' = None
    /\ unsent' = [unsent EXCEPT ![i] = IF emitted' # << >> THEN FALSE ELSE @]
    /\ handles' = handles \ {i}
    /\ stderr' = << >>
    /\ UNCHANGED << ports, fault, sets, inbox >>

\* The scan is the UI's idle code, which lib.rs does not contain: its loop and its
\* guards follow the design document (section 4.5), the calls it makes are those
\* of lib.rs.  write_port takes the port by shared reference, and a UIAtomPort
\* has no operation but init that empties space_to_plugin, so a scan leaves the
\* staged bytes of an atom port where they are.

\* the write-back of one port during a scan: the port after it, and what was emitted
ScanPort(port) ==
    IF port.kind = "control"
    THEN LET r == changed_value(port)
         IN  [port |-> r.port, emitted |-> IF r.ret.some THEN write_port(r.port) ELSE << >>]
    ELSE [port |-> port,
          emitted |-> IF UIPort_size(port) > 0 THEN write_port(port) ELSE << >>]

\* the scan of the ports from index i on, in ascending order
RECURSIVE ScanFrom(_, _)
ScanFrom(ps, i) ==
    IF i \notin PortIndex THEN [ports |-> ps, emitted |-> << >>]
    ELSE IF i \notin DOMAIN ps THEN ScanFrom(ps, i + 1)
    ELSE LET one == ScanPort(ps[i])
             rest == ScanFrom([ps EXCEPT ![i] = one.port], i + 1)
         IN  [ports |-> rest.ports, emitted |-> one.emitted \o rest.emitted]

EmittedPorts(es) == { es[k].index : k \in 1..Len(es) }

ScanAndEmit ==
    /\ ~fault
    /\ updates' = 0
    /\ LET r == ScanFrom(ports, 0)
       IN  /\ ports' = r.ports
           /\ emitted' = r.emitted
    /\ call' = << "scan_and_emit" >>
    /\ ret' = None
    /\ handles' = {}
    /\ sets' = [i \in PortIndex |-> IF i \in ControlPorts(ports) THEN NotePoll(sets, i)[i] ELSE sets[i]]
    /\ unsent' = [i \in PortIndex |-> IF i \in EmittedPorts(emitted') THEN FALSE ELSE unsent[i]]
    /\ stderr' = << >>
    /\ UNCHANGED << fault, inbox, aux >>

(* --------------------------- the specification ------------------------ *)

SetValueCall == (\E i \in PortIndex, v \in UIValues : UISetValue(i, v)) /\ UNCHANGED aux

ChangedValueCall == (\E i \in PortIndex : UIChangedValue(i)) /\ UNCHANGED aux

ReadCall == (\E i \in PortIndex : UIRead(i)) /\ UNCHANGED aux

InitCall == (\E i \in PortIndex : UIInit(i)) /\ UNCHANGED aux

AppendCall ==
    /\ \E i \in PortIndex, n \in 0..MaxOut, pad \in BOOLEAN : UIAppend(i, n, pad)
    /\ UNCHANGED aux

WritePortCall == (\E i \in PortIndex : UIWritePort(i)) /\ UNCHANGED aux

Next ==
    \/ HostPortEvent
    \/ SetValueCall
    \/ ChangedValueCall
    \/ ReadCall
    \/ InitCall
    \/ AppendCall
    \/ WritePortCall
    \/ ScanAndEmit

Spec == Init /\ [][Next]_vars

(* ------------------- the outbound space on its own -------------------- *)

\* The UI stages messages of up to MaxSpace bytes: init, then allocations
\* with and without padding.  staged records what the calls put into the space.

OutInit ==
    /\ \E i \in PortIndex :
          /\ UIInit(i)
          /\ staged' = [staged EXCEPT ![i] =
                 [appended |-> << >>, dropped |-> Len(ports[i].space_to_plugin.data)]]
    /\ UNCHANGED << put, delivered >>

OutAllocate ==
    /\ \E i \in PortIndex, n \in 0..MaxChunk, pad \in BOOLEAN :
          /\ UIAllocate(i, n, pad, MaxSpace)
          /\ staged' = [staged EXCEPT ![i].appended =
                 @ \o SubSeq(ports'[i].space_to_plugin.data,
                             Len(ports[i].space_to_plugin.data) + 1,
                             Len(ports'[i].space_to_plugin.data))]
    /\ UNCHANGED << put, delivered >>

OutNext ==
    \/ OutInit
    \/ OutAllocate

SpecOutbound == Init /\ [][OutNext]_vars

(* ---------------------- put_buffer step by step ----------------------- *)

\* The host's event for an atom port with put_buffer taken apart into its
\* statements, and the UI's read of the port between any two of them.  call is
\* the call that took the most recent step.

\* port_event up to the call of put_buffer: the port is found, the URID is the
\* port's, the pointer is not null
BeginPut ==
    /\ ~fault
    /\ put = None
    /\ \E port_index \in PortIndex, format \in Formats \ {0}, ev \in HostEvents :
          /\ map_atom_port(ports, port_index).some
          /\ urid_matches(ports[port_index], format)
          /\ NonNull(ev.buffer).some
          /\ put' = Some([port |-> port_index, pc |-> "set_len_0",
                          buffer |-> NonNull(ev.buffer).val, size |-> ev.size,
                          copied |-> << >>])
          /\ call' = << "port_event", port_index, format >>
    /\ ret' = None
    /\ updates' = 0
    /\ handles' = {}
    /\ stderr' = << >> /\ emitted' = << >>
    /\ UNCHANGED << ports, fault, hist, delivered, staged >>

\* what every step of put_buffer leaves alone
PutFrame ==
    /\ call' = << "put_buffer", put.val.port >>
    /\ ret' = None
    /\ UNCHANGED << fault, stderr, emitted, handles, sets, unsent, staged >>

\* self.data.set_len(0)
PutTruncate ==
    /\ put.some /\ put.val.pc = "set_len_0"
    /\ ports' = [ports EXCEPT ![put.val.port].space_to_ui.data = << >>]
    /\ put' = Some([put.val EXCEPT !.pc = "copy"])
    /\ PutFrame
    /\ UNCHANGED << updates, inbox, delivered >>

\* self.data.reserve(size); copy_nonoverlapping(buffer, self.data.as_mut_ptr(), size):
\* the bytes lie behind the length of the vector, where take() does not look
PutCopy ==
    /\ put.some /\ put.val.pc = "copy"
    /\ put' = Some([put.val EXCEPT !.pc = "set_len",
                                   !.copied = SubSeq(put.val.buffer.mem, 1, put.val.size)])
    /\ PutFrame
    /\ UNCHANGED << ports, updates, inbox, delivered >>

\* self.data.set_len(size): the message is in the space
PutSetLen ==
    /\ put.some /\ put.val.pc = "set_len"
    /\ ports' = [ports EXCEPT ![put.val.port].space_to_ui.data =
                                  SubSeq(put.val.copied, 1, put.val.size)]
    /\ put' = Some([put.val EXCEPT !.pc = "already_read"])
    /\ inbox' = NotePut(inbox, put.val.port, ports[put.val.port].space_to_ui,
                        SubSeq(put.val.copied, 1, put.val.size))
    /\ delivered' = [delivered EXCEPT ![put.val.port] = 0]
    /\ PutFrame
    /\ UNCHANGED updates

\* self.already_read = false; put_buffer and port_event return, update() is called
PutResetRead ==
    /\ put.some /\ put.val.pc = "already_read"
    /\ ports' = [ports EXCEPT ![put.val.port].space_to_ui.already_read = FALSE]
    /\ put' = None
    /\ updates' = 1
    /\ PutFrame
    /\ UNCHANGED << inbox, delivered >>

\* the UI's read, at any time
TakeCall ==
    /\ \E i \in PortIndex :
          /\ UIRead(i)
          /\ delivered' = [delivered EXCEPT ![i] = IF ret'.some THEN Bump(@) ELSE @]
    /\ UNCHANGED << put, staged >>

InterleavedNext ==
    \/ BeginPut
    \/ PutTruncate
    \/ PutCopy
    \/ PutSetLen
    \/ PutResetRead
    \/ TakeCall

SpecInterleaved == Init /\ [][InterleavedNext]_vars

(* ------------------------------- claims ------------------------------- *)

\* the last value set on port i and the changed_value calls made since, if any
LastSet(i) == sets[i].val

\* the last message put on port i and the take calls made since, if any
LastPut(i) == inbox[i].val

Outbound(port) == port.space_to_plugin.data

\* the emission of a control port holding value v
ScalarEmission(i, v) == [index |-> i, size |-> 4, protocol |-> 0, data |-> F32ToBytes(v)]

\* the emission of an atom port holding the staged bytes
AtomEmission(port) ==
    [index |-> port.index, size |-> Len(Outbound(port)), protocol |-> port.urid,
     data |-> Outbound(port)]

Contains(es, e) == \E k \in 1..Len(es) : es[k] = e

\* C1: after set_value calls, the first changed_value() returns Some of the value
\* set last and every further one returns None until the next set_value; on a
\* port never set, changed_value() returns None.
C1_ChangedValueOnce ==
    \A i \in ControlPorts(ports) :
        call = << "changed_value", i >> =>
            ret = IF sets[i].some /\ LastSet(i).polls = 1
                  THEN Some(LastSet(i).v)
                  ELSE None

\* C1 witness: a second set_value changed the value, and the poll returned it
C1_Witness ==
    /\ call = << "changed_value", 0 >>
    /\ ret.some /\ ret.val # 0
    /\ sets[0].some /\ LastSet(0).polls = 1

\* C2: a message of L > 0 bytes put by put_buffer is what the first take()
\* returns, with length L, and the take() after that returns None.
C2_PutThenTake ==
    \A i \in AtomPorts(ports) :
        (call = << "read", i >> /\ inbox[i].some /\ Len(LastPut(i).msg) > 0) =>
            /\ LastPut(i).takes = 1 =>
                  (ret = Some(LastPut(i).msg) /\ Len(ret.val) = Len(LastPut(i).msg))
            /\ LastPut(i).takes = 2 => ret = None

\* C2 witness: the second take() after a put, which returned None
C2_Witness ==
    /\ call = << "read", 1 >>
    /\ inbox[1].some /\ Len(LastPut(1).msg) = MaxLen /\ LastPut(1).takes = 2
    /\ ret = None

\* C3 as stated: changed is true exactly when the value was set since the last
\* write-back emission of the port.
C3_DirtyUntilWriteBack ==
    \A i \in ControlPorts(ports) : ports[i].changed <=> unsent[i]

\* C3 as amended: changed is true exactly when the value was set since the last
\* changed_value() call on the port, only a changed_value() call (the UI's or the
\* write-back scan's) clears it, and a write-back that is the first call to look
\* at the port after a set emits (i, 4, 0, v).
C3_DirtyUntilChangedValue ==
    [][\A i \in ControlPorts(ports) :
         /\ ports[i].changed <=> (sets[i].some /\ LastSet(i).polls = 0)
         /\ ports'[i].changed <=> (sets'[i].some /\ sets'[i].val.polls = 0)
         /\ (ports[i].changed /\ ~ports'[i].changed) =>
                call' \in { << "changed_value", i >>, << "scan_and_emit" >> }
         /\ (call' \in { << "write_port", i >>, << "scan_and_emit" >> }
                /\ sets[i].some /\ LastSet(i).polls = 0) =>
                Contains(emitted', ScalarEmission(i, LastSet(i).v))
      ]_vars

\* C3 witness: an inbound float was written back by the scan
C3_Witness ==
    /\ call = << "scan_and_emit" >>
    /\ sets[0].some /\ LastSet(0).polls = 1 /\ LastSet(0).v \in HostValues
    /\ Contains(emitted, ScalarEmission(0, LastSet(0).v))
    /\ ~ports[0].changed

\* C4 as stated: a write-back of an atom port with staged bytes emits them and
\* leaves the outbound buffer empty.
C4_WriteBackClears ==
    [][\A i \in AtomPorts(ports) :
         (call' \in { << "write_port", i >>, << "scan_and_emit" >> }
             /\ Len(Outbound(ports[i])) > 0) =>
            /\ Contains(emitted', AtomEmission(ports[i]))
            /\ Len(Outbound(ports'[i])) = 0
      ]_vars

\* the emissions of es are those of the ports of set P, in ascending index order
AscendingOver(es, P) ==
    /\ { es[k].index : k \in 1..Len(es) } = P
    /\ \A k \in 1..(Len(es) - 1) : es[k].index < es[k + 1].index

Pending(port) ==
    IF port.kind = "control" THEN port.changed ELSE Len(Outbound(port)) > 0

UnknownPortReports(i) == { << "unknown control port", i >>, << "unknown atom port", i >> }

\* C6 as stated: an event for an index that is not in the collection changes no
\* port and reports the unknown port.
C6_UnknownIndex ==
    [][\A i \in PortIndex \ DOMAIN ports, format \in Formats :
         call' = << "port_event", i, format >> =>
            (ports' = ports /\ stderr' \in UnknownPortReports(i))
      ]_vars

\* C7 as stated: a float event (format 0) for a control port with a length other
\* than 4 reports a size mismatch and leaves value and changed as they were.
\* (Stated for the buffers that hold 4 bytes or more, where the read of the f32
\* is defined.)
C7_SizeMismatch ==
    [][\A i \in ControlPorts(ports), ev \in HostEvents :
         (ev.size # F32Size /\ Readable(ev.buffer) >= F32Size
             /\ PluginUI_port_event(i, ev.size, 0, ev.buffer)) =>
            /\ ports'[i].value = ports[i].value
            /\ ports'[i].changed = ports[i].changed
            /\ stderr' = << "size mismatch", i >>
      ]_vars

\* C8: an atom event whose URID differs from the port's reports the mismatch and
\* leaves the inbound space as it was: an unread message is still returned by the
\* next take(), a read one is not.
C8_UridMismatch ==
    [][\A i \in AtomPorts(ports), format \in Formats \ {0} :
         (format # ports[i].urid /\ call' = << "port_event", i, format >>) =>
            /\ stderr' = << "urids don't match", i >>
            /\ ports'[i].space_to_ui = ports[i].space_to_ui
            /\ inbox[i].some =>
                  take(ports'[i].space_to_ui).ret =
                      IF LastPut(i).takes = 0 /\ Len(LastPut(i).msg) > 0
                      THEN Some(LastPut(i).msg)
                      ELSE None
      ]_vars

\* C8 witness: the mismatch was reported while an unread message was pending
C8_Witness ==
    /\ call = << "port_event", 1, 8 >>
    /\ stderr = << "urids don't match", 1 >>
    /\ inbox[1].some /\ LastPut(1).takes = 0 /\ Len(LastPut(1).msg) > 0
    /\ ~ports[1].space_to_ui.already_read

\* the tag does not fit the kind of the port at the index
Inconsistent(port, format) ==
    \/ port.kind = "control" /\ format # 0
    \/ port.kind = "atom" /\ format = 0

\* C9 as stated: an event whose tag does not fit the kind of the addressed port
\* is reported and changes no port.
C9_ProtocolMismatch ==
    [][\A i \in DOMAIN ports, format \in Formats :
         (Inconsistent(ports[i], format) /\ call' = << "port_event", i, format >>) =>
            (ports' = ports /\ stderr' # << >>)
      ]_vars

\* C10: put_buffer discards what the space held: whatever was put before, read or
\* not, longer or not, the next take() returns exactly the message put last, and
\* no take() ever returns anything but the message put last.
C10_ReplaceDiscards ==
    \A i \in AtomPorts(ports) :
        inbox[i].some =>
            /\ LastPut(i).takes = 0 =>
                  take(ports[i].space_to_ui).ret =
                      IF Len(LastPut(i).msg) > 0 THEN Some(LastPut(i).msg) ELSE None
            /\ (call = << "read", i >> /\ ret.some) => ret.val = LastPut(i).msg

\* C10 witness: a shorter message replaced an unread longer one and was returned
C10_Witness ==
    /\ call = << "read", 1 >>
    /\ inbox[1].some /\ LastPut(1).replaced = "longer" /\ LastPut(1).takes = 1
    /\ ret = Some(LastPut(1).msg)

\* C11: after a put_buffer of size 0, whatever the space held before (an unread
\* message included), take() returns None, and every take() returns None until a
\* put_buffer of a size above 0.
C11_EmptyReplace ==
    \A i \in AtomPorts(ports) :
        (inbox[i].some /\ Len(LastPut(i).msg) = 0) =>
            /\ take(ports[i].space_to_ui).ret = None
            /\ call = << "read", i >> => ret = None

\* C11 witness: an empty message replaced an unread one, and the second take()
\* since then returned None as the first did
C11_Witness ==
    /\ call = << "read", 1 >>
    /\ inbox[1].some /\ Len(LastPut(1).msg) = 0
    /\ LastPut(1).replaced = "longer" /\ LastPut(1).takes = 2
    /\ ret = None

\* the offset of a slice allocated in a space of k bytes
AlignedOffset(k, apply_padding) == IF apply_padding THEN k + ((8 - (k % 8)) % 8) ELSE k

\* C12: an allocation of n bytes in a space of k bytes returns a slice of n bytes
\* at offset k + ((8 - k mod 8) mod 8) with padding and at offset k without, the
\* space then is offset + n bytes long, its first k bytes are as before, and the
\* bytes between k and the offset are zero.
C12_AllocatePadding ==
    [][\A i \in AtomPorts(ports), n \in 0..MaxChunk, pad \in BOOLEAN :
         UIAllocate(i, n, pad, MaxSpace) =>
            LET k == Len(Outbound(ports[i]))
                off == AlignedOffset(k, pad)
                new == Outbound(ports'[i])
            IN  /\ ret' = Some([start |-> off, len |-> n])
                /\ Len(new) = off + n
                /\ SubSeq(new, 1, k) = Outbound(ports[i])
                /\ \A j \in (k + 1)..off : new[j] = 0
      ]_vars

\* C12 witness: a slice was allocated at offset 16 of a space that was between 9
\* and 15 bytes long, so that zero bytes were inserted before it
C12_Witness ==
    /\ call = << "allocate", 1 >>
    /\ ret.some /\ ret.val.start = 16 /\ ret.val.len > 0
    /\ Len(Outbound(ports[1])) = 16 + ret.val.len
    /\ Outbound(ports[1])[9] # 0 /\ Outbound(ports[1])[16] = 0

\* C13: init leaves the outbound space empty, and the outbound space holds
\* exactly the bytes allocated since the most recent init: what was staged
\* before is gone.
C13_InitEmpties ==
    \A i \in AtomPorts(ports) :
        /\ call = << "init", i >> => Outbound(ports[i]) = << >>
        /\ Outbound(ports[i]) = staged[i].appended

\* C13 witness: init discarded a staged message, and the message staged after it
\* is shorter than the discarded one
C13_Witness ==
    /\ call = << "allocate", 1 >>
    /\ staged[1].dropped > Len(Outbound(ports[1]))
    /\ Len(Outbound(ports[1])) > 0

\* the calls that work on the inbound space of port i, and those on the outbound
InboundCalls(i) == { << "port_event", i, format >> : format \in Formats } \cup { << "read", i >> }
OutboundCalls(i) ==
    { << "init", i >>, << "allocate", i >>, << "write_port", i >>, << "scan_and_emit" >> }

C15_OtherPortsUntouched ==
    [][\A i \in DOMAIN ports, format \in Formats :
         call' = << "port_event", i, format >> =>
            /\ \A j \in DOMAIN ports \ {i} : ports'[j] = ports[j]
            /\ ~fault'
      ]_vars

\* C16: an event for an atom port with the port's URID and a null pointer prints
\* nothing and changes nothing: the inbound space is as before, and the next
\* take() returns what it would have returned before.
C16_NullPayloadNoOp ==
    [][\A i \in AtomPorts(ports), n \in {0, F32Size} :
         PluginUI_port_event(i, n, ports[i].urid, NullPtr) =>
            /\ ports' = ports
            /\ stderr' = << >>
            /\ take(ports'[i].space_to_ui).ret = take(ports[i].space_to_ui).ret
      ]_vars

\* C16 witness: the last call was an event with the port's URID, and the message
\* put before it is still marked as read: the event carried a null pointer
C16_Witness ==
    /\ call = << "port_event", 1, 7 >>
    /\ stderr = << >>
    /\ inbox[1].some /\ LastPut(1).takes = 1 /\ Len(LastPut(1).msg) > 0
    /\ ports[1].space_to_ui.already_read
    /\ ports[1].space_to_ui.data = LastPut(1).msg

\* C17 as stated: an event for an index that is not in the collection does not
\* read the payload, so it does not fault, whatever the format and the pointer.
C17_IndexBeforePayload ==
    [][\A i \in PortIndex \ DOMAIN ports, format \in Formats :
         call' = << "port_event", i, format >> => ~fault'
      ]_vars

\* C20 as stated: every host port event is followed by exactly one update() call.
C20_UpdateOnce ==
    [][\A i \in PortIndex, format \in Formats :
         call' = << "port_event", i, format >> => updates' = 1
      ]_vars

\* put_buffer on port i has taken its first step and not yet its last one
PutInProgress(i) == put.some /\ put.val.port = i /\ put.val.pc # "set_len_0"

\* C18 as stated: while put_buffer works on the inbound space of a port, a read
\* of that port does not touch that space.
C18_DisjointStorage ==
    [][\A i \in AtomPorts(ports) :
         (PutInProgress(i) /\ call' = << "read", i >>) =>
            ports'[i].space_to_ui = ports[i].space_to_ui
      ]_vars

\* C19 as stated: with take() between the steps of put_buffer, the message a
\* put_buffer placed is returned by at most one take(), and what a take() returns
\* is a message that was put completely.
C19_ReadOnceInterleaved ==
    \A i \in AtomPorts(ports) :
        /\ delivered[i] <= 1
        /\ (call = << "read", i >> /\ ret.some) =>
               (inbox[i].some /\ ret.val = LastPut(i).msg)

=============================================================================
